---- MODULE Spec2Model ----
(***************************************************************************)
(* Reverse-mode automatic differentiation engine on a Wengert list         *)
(* (tensorslow): the tape, the tracked matrices (ts::Tensor), the eleven   *)
(* primitives and the reverse sweep.                                       *)
(*                                                                         *)
(* In the tape machine (Spec) an Eigen array is represented by its shape   *)
(* <<rows, cols>>: every statement settled there is about shapes, indices, *)
(* the node sequence and the elementWiseOnly flag.  The entries of the     *)
(* arrays are modelled in the per-primitive specifications (SpecPool,      *)
(* SpecDiv), where matrices are sequences of rows of integers.             *)
(***************************************************************************)
EXTENDS Integers, Sequences, FiniteSets, TLC

VARIABLES wLists, tensors, lastCall, crashed, calc

vars == <<wLists, tensors, lastCall, crashed, calc>>

(***************************************************************************)
(* Bounds                                                                  *)
(***************************************************************************)
\* largest number of rows / columns of a matrix handed to track
MaxDim == 2
\* largest total number of nodes on all tapes
MaxNodes == 3
\* largest number of operands handed to vertCat
MaxCat == 2

\* the two Wengert lists of the model; NULL is the null tape pointer
Tapes == {1, 2}
NULL == 0

Dims == 1..MaxDim
Shapes == Dims \X Dims
EmptyShape == <<0, 0>>
Rows(s) == s[1]
Cols(s) == s[2]

(***************************************************************************)
(* Nodes                                                                   *)
(***************************************************************************)
\* ts::Node: values (local factors, by shape), dependencies, rows, cols and
\* the operation; pool, heights and size are the extra fields of
\* PoolingNode, VertCatNode and FlatteningNode.
MkNode(kind, shape, vals, deps, pool, heights, size) ==
    [kind |-> kind, rows |-> shape[1], cols |-> shape[2], values |-> vals,
     dependencies |-> deps, pool |-> pool, heights |-> heights, size |-> size]

\* Node(shape): an input variable
InputNode(shape) == MkNode("Input", shape, <<>>, <<>>, <<>>, <<>>, <<>>)

\* Node(shape, type, xVal, xDep): a unary operator
UnaryNode(shape, kind, xVal, xDep) ==
    MkNode(kind, shape, <<xVal>>, <<xDep>>, <<>>, <<>>, <<>>)

\* Node(shape, type, xVal, xDep, yVal, yDep): a binary operator
BinaryNode(shape, kind, xVal, xDep, yVal, yDep) ==
    MkNode(kind, shape, <<xVal, yVal>>, <<xDep, yDep>>, <<>>, <<>>, <<>>)

ConvolutionNode(shape, xVal, xDep, yVal, yDep) ==
    BinaryNode(shape, "Convolution", xVal, xDep, yVal, yDep)

PoolingNode(shape, xVal, xDep, newPool) ==
    MkNode("Pooling", shape, <<xVal>>, <<xDep>>, newPool, <<>>, <<>>)

VertCatNode(shape, newDependencies, newHeights) ==
    MkNode("VertCat", shape, <<>>, newDependencies, <<>>, newHeights, <<>>)

FlatteningNode(shape, xVal, xDep, newSize) ==
    MkNode("Flattening", shape, <<xVal>>, <<xDep>>, <<>>, <<>>, newSize)

NoNode == InputNode(EmptyShape)

(***************************************************************************)
(* Tracked matrices                                                        *)
(***************************************************************************)
\* ts::Tensor: value (by shape), wList, index
MkTensor(value, wList, index) ==
    [value |-> value, wList |-> wList, index |-> index]

\* ts::Tensor<T>(Eigen::Array<T, 0, 0>(), NULL): the failure sentinel
Sentinel == MkTensor(EmptyShape, NULL, -1)

NoTensor == MkTensor(EmptyShape, NULL, -2)

IsSentinel(t) == t.wList = NULL /\ t.value = EmptyShape

\* What a primitive does, in the order the code does it: dereference
\* x.wList to clear elementWiseOnly (clear = the pointers written through,
\* none when the primitive has no such statement or returns before it), then
\* either return the sentinel (fail) or return Tensor(value, wList, node).
\* ub: the call reads or writes outside an array.
Effect(clear, fail, ub, value, wList, node) ==
    [clear |-> clear, fail |-> fail, ub |-> ub, value |-> value,
     wList |-> wList, node |-> node]

NoClear == {}

Fail == Effect(NoClear, TRUE, FALSE, EmptyShape, NULL, NoNode)

(***************************************************************************)
(* Elementwise primitives                                                  *)
(***************************************************************************)
SizeMismatch(x, y) ==
    \/ x.wList # y.wList
    \/ Rows(x.value) # Rows(y.value)
    \/ Cols(x.value) # Cols(y.value)

\* shape of a coefficient-wise expression of two arrays of equal shape
CwiseShape(a, b) == a

\* operator+ recording the index after x's as the first dependency
OperatorPlusMutant(x, y) ==
    IF SizeMismatch(x, y) THEN Fail
    ELSE LET grad == <<Rows(x.value), Cols(x.value)>>
         IN  Effect(NoClear, FALSE, FALSE, CwiseShape(x.value, y.value), x.wList,
                    BinaryNode(<<Rows(x.value), Cols(x.value)>>, "ElementWise",
                               grad, x.index + 1, grad, y.index))

\* operator+ : factors (1, 1), both grad.setOnes(x.rows, x.cols)
OperatorPlus(x, y) ==
    IF SizeMismatch(x, y) THEN Fail
    ELSE LET grad == <<Rows(x.value), Cols(x.value)>>
         IN  Effect(NoClear, FALSE, FALSE, CwiseShape(x.value, y.value), x.wList,
                    BinaryNode(<<Rows(x.value), Cols(x.value)>>, "ElementWise",
                               grad, x.index, grad, y.index))

\* operator- : factors (1, -1)
OperatorMinus(x, y) ==
    IF SizeMismatch(x, y) THEN Fail
    ELSE LET grad == <<Rows(x.value), Cols(x.value)>>
         IN  Effect(NoClear, FALSE, FALSE, CwiseShape(x.value, y.value), x.wList,
                    BinaryNode(<<Rows(x.value), Cols(x.value)>>, "ElementWise",
                               grad, x.index, grad, y.index))

\* operator* : factors (y, x)
OperatorTimes(x, y) ==
    IF SizeMismatch(x, y) THEN Fail
    ELSE Effect(NoClear, FALSE, FALSE, CwiseShape(x.value, y.value), x.wList,
                BinaryNode(<<Rows(x.value), Cols(x.value)>>, "ElementWise",
                           y.value, x.index, x.value, y.index))

\* operator/ : factors (1.0 / y, -x / (y * y)); the value is x.value + y.value
OperatorDiv(x, y) ==
    IF SizeMismatch(x, y) THEN Fail
    ELSE Effect(NoClear, FALSE, FALSE, CwiseShape(x.value, y.value), x.wList,
                BinaryNode(<<Rows(x.value), Cols(x.value)>>, "ElementWise",
                           y.value, x.index,
                           CwiseShape(x.value, CwiseShape(y.value, y.value)),
                           y.index))

Sigmoid(x) ==
    Effect(NoClear, FALSE, FALSE, x.value, x.wList,
           UnaryNode(<<Rows(x.value), Cols(x.value)>>, "ElementWise",
                     x.value, x.index))

(***************************************************************************)
(* Matrix product and squared norm                                         *)
(***************************************************************************)
Transpose(s) == <<Cols(s), Rows(s)>>

\* x.value.matrix() * y.value.matrix()
ProductShape(a, b) == <<Rows(a), Cols(b)>>

\* matProd clearing the flag before it validates its operands
MatProdMutantFlag(x, y) ==
    IF x.wList # y.wList \/ Cols(x.value) # Rows(y.value)
    THEN Effect({x.wList}, TRUE, FALSE, EmptyShape, NULL, NoNode)
    ELSE Effect({x.wList}, FALSE, FALSE, ProductShape(x.value, y.value), x.wList,
                BinaryNode(<<Rows(x.value), Cols(y.value)>>, "MatrixProduct",
                           Transpose(y.value), x.index,
                           Transpose(x.value), y.index))

\* matProd recording the shape of x as the shape of the product
MatProdMutantShape(x, y) ==
    IF x.wList # y.wList \/ Cols(x.value) # Rows(y.value) THEN Fail
    ELSE Effect({x.wList}, FALSE, FALSE, ProductShape(x.value, y.value), x.wList,
                BinaryNode(<<Rows(x.value), Cols(x.value)>>, "MatrixProduct",
                           Transpose(y.value), x.index,
                           Transpose(x.value), y.index))

MatProd(x, y) ==
    IF x.wList # y.wList \/ Cols(x.value) # Rows(y.value) THEN Fail
    ELSE Effect({x.wList}, FALSE, FALSE, ProductShape(x.value, y.value), x.wList,
                BinaryNode(<<Rows(x.value), Cols(y.value)>>, "MatrixProduct",
                           Transpose(y.value), x.index,
                           Transpose(x.value), y.index))

SquaredNorm(x) ==
    Effect({x.wList}, FALSE, FALSE, <<1, 1>>, x.wList,
           UnaryNode(<<1, 1>>, "Norm", x.value, x.index))

(***************************************************************************)
(* Convolution                                                             *)
(***************************************************************************)
\* shape of ts::convArray(mat, ker): empty when ker does not fit in mat
ConvArrayShape(mat, ker) ==
    IF Rows(mat) < Rows(ker) \/ Cols(mat) < Cols(ker) THEN EmptyShape
    ELSE <<Rows(mat) - Rows(ker) + 1, Cols(mat) - Cols(ker) + 1>>

\* dMat padded by one row and column too many
DMatShapeMutant(res, ker) ==
    <<2 * Rows(res) + Rows(ker) - 1, 2 * Cols(res) + Cols(ker) - 1>>

\* dMat.setZero(2 * res.rows() + ker.rows() - 2, 2 * res.cols() + ker.cols() - 2)
DMatShape(res, ker) ==
    <<2 * Rows(res) + Rows(ker) - 2, 2 * Cols(res) + Cols(ker) - 2>>

Convolution(mat, ker) ==
    IF \/ mat.wList # ker.wList
       \/ Rows(mat.value) < Rows(ker.value)
       \/ Cols(mat.value) < Cols(ker.value)
    THEN Fail
    ELSE LET res == ConvArrayShape(mat.value, ker.value)
         IN  Effect({mat.wList}, FALSE, FALSE, res, mat.wList,
                    ConvolutionNode(<<Rows(res), Cols(res)>>,
                                    DMatShape(res, ker.value), mat.index,
                                    mat.value, ker.index))

(***************************************************************************)
(* Max pooling                                                             *)
(***************************************************************************)
\* the forward loops read x.value(j * pool[1] + l, i * pool[0] + k) for
\* j < res.rows, i < res.cols, l < pool[0], k < pool[1] (pool is 1-indexed
\* here: pool[0] is pool[1], pool[1] is pool[2])
PoolReadsOutside(xs, res, pool) ==
    /\ Rows(res) > 0 /\ Cols(res) > 0
    /\ \/ (Rows(res) - 1) * pool[2] + pool[1] - 1 >= Rows(xs)
       \/ (Cols(res) - 1) * pool[1] + pool[2] - 1 >= Cols(xs)

MaxPooling(x, pool) ==
    IF Len(pool) # 2 THEN Fail
    ELSE IF Rows(x.value) % pool[1] # 0 \/ Cols(x.value) % pool[2] # 0 THEN Fail
    ELSE LET res == <<Rows(x.value) \div pool[1], Cols(x.value) \div pool[2]>>
             dx  == <<Rows(x.value), Cols(x.value)>>
         IN  Effect({x.wList}, FALSE, PoolReadsOutside(x.value, res, pool), res,
                    x.wList,
                    PoolingNode(<<Rows(res), Cols(res)>>, dx, x.index, pool))

(***************************************************************************)
(* Vertical concatenation                                                  *)
(***************************************************************************)
\* heights after the first n operands: cumulative starting heights
RECURSIVE Heights(_, _)
Heights(x, n) ==
    IF n = 0 THEN <<0>>
    ELSE LET h == Heights(x, n - 1)
         IN  Append(h, h[Len(h)] + Rows(x[n].value))

VertCat(x) ==
    IF Len(x) = 0 THEN Fail
    ELSE LET width == Cols(x[1].value)
             bad == \E i \in 1..Len(x) :
                        Cols(x[i].value) # width \/ x[i].wList # x[1].wList
             heights == Heights(x, Len(x))
             height == heights[Len(heights)]
             dependencies == [i \in 1..Len(x) |-> x[i].index]
             res == <<height, width>>
         IN  IF bad
             THEN Effect({x[1].wList}, TRUE, FALSE, EmptyShape, NULL, NoNode)
             ELSE Effect({x[1].wList}, FALSE, FALSE, res, x[1].wList,
                         VertCatNode(<<Rows(res), Cols(res)>>, dependencies,
                                     heights))

(***************************************************************************)
(* Flattening                                                              *)
(***************************************************************************)
\* Eigen::Map<Eigen::Array<T, -1, 1>>(res.data(), res.cols() * res.rows())
FlatShape(s) == <<Cols(s) * Rows(s), 1>>

Flattening(x) ==
    LET res == FlatShape(x.value)
    IN  Effect({x.wList}, FALSE, FALSE, res, x.wList,
               FlatteningNode(<<Rows(res), Cols(res)>>, EmptyShape, x.index,
                              <<Rows(x.value), Cols(x.value)>>))

(***************************************************************************)
(* Reverse sweep                                                           *)
(***************************************************************************)
\* a derivative not set yet, and the result of an Eigen operation whose
\* operands do not fit (a block or coefficient outside the array, a product
\* or sum of arrays of different sizes)
Unset == <<>>
Undefined == <<-1, -1>>

\* ConvolutionNode::incrementGradient: the operands of convArray are ordered
\* by comparing childDerivative.rows() with values[j].rows() and .cols()
ConvolutionIncrement(node, j, childDerivative) ==
    LET v == node.values[j]
    IN  IF Rows(childDerivative) > Rows(v) /\ Rows(childDerivative) > Cols(v)
        THEN ConvArrayShape(childDerivative, v)
        ELSE ConvArrayShape(v, childDerivative)

\* PoolingNode::incrementGradient: upsample has the size of values[j]; the
\* loops write upsample(r * pool[0] + l, c * pool[1] + k) for every entry
\* (r, c) of childDerivative, l < pool[0], k < pool[1]
PoolingIncrement(node, j, childDerivative) ==
    LET v == node.values[j]
        pool == node.pool
        lastRow == (Rows(childDerivative) - 1) * pool[1] + pool[1] - 1
        lastCol == (Cols(childDerivative) - 1) * pool[2] + pool[2] - 1
    IN  IF lastRow >= Rows(v) \/ lastCol >= Cols(v) THEN Undefined
        ELSE CwiseShape(<<Rows(v), Cols(v)>>, v)

\* VertCatNode::incrementGradient: the block of rows heights[j] ..
\* heights[j+1] - 1 of childDerivative (slot j is 1-based here)
VertCatIncrement(node, j, childDerivative) ==
    LET from == node.heights[j]
        n == node.heights[j + 1] - node.heights[j]
    IN  IF from + n > Rows(childDerivative) THEN Undefined
        ELSE <<n, Cols(childDerivative)>>

\* FlatteningNode::incrementGradient: mat(j, i) = childDerivative(j * size[1] + i, 0)
FlatteningIncrement(node, j, childDerivative) ==
    IF \/ Cols(childDerivative) < 1
       \/ node.size[1] * node.size[2] > Rows(childDerivative)
    THEN Undefined
    ELSE <<node.size[1], node.size[2]>>

\* Tensor::incrementGradient for the base node: elementwise product,
\* matrix product with the transposed factor, scalar times factor
ElementWiseIncrement(node, j, childDerivative) ==
    IF childDerivative = node.values[j] THEN childDerivative ELSE Undefined

MatrixProductIncrement(node, j, childDerivative) ==
    LET v == node.values[j]
    IN  IF j = 1
        THEN IF Cols(childDerivative) = Rows(v)
             THEN ProductShape(childDerivative, v) ELSE Undefined
        ELSE IF Cols(v) = Rows(childDerivative)
             THEN ProductShape(v, childDerivative) ELSE Undefined

NormIncrement(node, j, childDerivative) ==
    IF childDerivative = <<1, 1>> THEN node.values[j] ELSE Undefined

\* the contribution of node to its j-th dependency, by node variant
IncrementGradient(node, j, childDerivative) ==
    CASE node.kind = "ElementWise" -> ElementWiseIncrement(node, j, childDerivative)
      [] node.kind = "MatrixProduct" -> MatrixProductIncrement(node, j, childDerivative)
      [] node.kind = "Norm" -> NormIncrement(node, j, childDerivative)
      [] node.kind = "Convolution" -> ConvolutionIncrement(node, j, childDerivative)
      [] node.kind = "Pooling" -> PoolingIncrement(node, j, childDerivative)
      [] node.kind = "VertCat" -> VertCatIncrement(node, j, childDerivative)
      [] node.kind = "Flattening" -> FlatteningIncrement(node, j, childDerivative)
      [] OTHER -> Undefined

\* d[p] += c, creating d[p] on first touch; ok records that every
\* contribution was defined and was added to a matrix of its own size
AddInto(acc, i, p, c) ==
    IF p < 0 \/ p >= i \/ c = Undefined THEN [acc EXCEPT !.ok = FALSE]
    ELSE IF acc.d[p + 1] = Unset THEN [acc EXCEPT !.d[p + 1] = c]
    ELSE IF acc.d[p + 1] = c THEN acc
    ELSE [acc EXCEPT !.ok = FALSE]

RECURSIVE Accumulate(_, _, _, _)
Accumulate(node, i, j, acc) ==
    IF j > Len(node.dependencies) THEN acc
    ELSE Accumulate(node, i, j + 1,
                    AddInto(acc, i, node.dependencies[j],
                            IncrementGradient(node, j, acc.d[i + 1])))

\* the sweep from node i down to node 0
RECURSIVE Sweep(_, _, _)
Sweep(nodes, i, acc) ==
    IF i < 0 THEN acc
    ELSE Sweep(nodes, i - 1,
               IF acc.d[i + 1] = Unset THEN acc
               ELSE Accumulate(nodes[i + 1], i, 1, acc))

\* the tape after a sweep over it: sweeps only read the tape
AfterSweepMutant(W) == [W EXCEPT !.nodes = [k \in 1..Len(@) |-> [@[k] EXCEPT !.values = <<>>]]]

AfterSweep(W) == W

\* Tensor::grad() on a tape W with the given flag and nodes: NotScalar when
\* the flag is clear and the root is not 1x1, else the bundle d[0..root]
Grad(W, X) ==
    IF ~W.elementWiseOnly /\ X.value # <<1, 1>>
    THEN [err |-> "NotScalar", d |-> <<>>, ok |-> TRUE]
    ELSE LET seed == [k \in 1..(X.index + 1) |->
                         IF k = X.index + 1 THEN X.value ELSE Unset]
             res == Sweep(W.nodes, X.index, [d |-> seed, ok |-> TRUE])
         IN  [err |-> "none", d |-> res.d, ok |-> res.ok]

(***************************************************************************)
(* The tape machine                                                        *)
(***************************************************************************)
\* WengertList: nodes and elementWiseOnly (true on a new list)
NewWengertList == [nodes |-> <<>>, elementWiseOnly |-> TRUE]

\* WengertList::size()
Size(W) == Len(wLists[W].nodes)

\* N[i], with the code's indices (the first node is node 0)
NodeAt(W, i) == wLists[W].nodes[i + 1]

TotalNodes == Size(1) + Size(2)

\* the tracked matrices a caller can hand to a primitive: the ones returned
\* so far, and ts::Tensor<T>(Eigen::Array<T, 0, 0>(), NULL), which a caller
\* can build at any time
Operands == tensors

Pools == {<<a, b>> : a \in Dims, b \in Dims} \cup {<<a>> : a \in Dims}

CatOperands == UNION {[1..n -> Operands] : n \in 0..MaxCat}

NoBundle == [err |-> "none", d |-> <<>>, ok |-> TRUE]

Call(op, args, pool, ret, bundle) ==
    [op |-> op, args |-> args, pool |-> pool, ret |-> ret, bundle |-> bundle]

\* x.wList->elementWiseOnly = false
ClearFlag(wl, ptrs) ==
    [W \in Tapes |-> IF W \in ptrs THEN [wl[W] EXCEPT !.elementWiseOnly = FALSE]
                     ELSE wl[W]]

\* Tensor(newValue, newWList, node): on a tape, the node is appended and the
\* tracked matrix gets its index; with a null tape nothing is recorded
PushNode(wl, W, node) ==
    IF W \in Tapes THEN [wl EXCEPT ![W].nodes = Append(@, node)] ELSE wl

NewIndex(wl, W) == IF W \in Tapes THEN Len(wl[W].nodes) ELSE -1

\* One call of a primitive whose effect is eff.  A null x.wList dereferenced
\* or an access outside an array is undefined behaviour: the process either
\* stops there ("abort") or goes on with whatever the access produced
\* ("undefined"); the run is not followed past either outcome.
Apply(op, args, pool, eff) ==
    /\ crashed = "no"
    /\ TotalNodes < MaxNodes
    /\ \E outcome \in (IF NULL \in eff.clear \/ eff.ub
                       THEN {"abort", "undefined"} ELSE {"no"}) :
         LET cleared == ClearFlag(wLists, eff.clear)
             ret == IF eff.fail THEN Sentinel
                    ELSE MkTensor(eff.value, eff.wList,
                                  NewIndex(cleared, eff.wList))
         IN  IF outcome = "abort"
             THEN /\ crashed' = outcome
                  /\ wLists' = cleared
                  /\ tensors' = tensors
                  /\ lastCall' = Call(op, args, pool, NoTensor, NoBundle)
             ELSE /\ crashed' = outcome
                  /\ wLists' = IF eff.fail THEN cleared
                               ELSE PushNode(cleared, eff.wList, eff.node)
                  /\ tensors' = tensors \cup {ret}
                  /\ lastCall' = Call(op, args, pool, ret, NoBundle)
    /\ UNCHANGED calc

\* Tensor(newValue, wList): wraps a matrix as a leaf of tape W
Track(W, shape) ==
    /\ crashed = "no"
    /\ TotalNodes < MaxNodes
    /\ LET ret == MkTensor(shape, W, NewIndex(wLists, W))
       IN  /\ wLists' = PushNode(wLists, W, InputNode(shape))
           /\ tensors' = tensors \cup {ret}
           /\ lastCall' = Call("track", <<>>, <<>>, ret, NoBundle)
    /\ UNCHANGED <<crashed, calc>>

CallPlus == \E x, y \in Operands : Apply("+", <<x, y>>, <<>>, OperatorPlus(x, y))
CallMinus == \E x, y \in Operands : Apply("-", <<x, y>>, <<>>, OperatorMinus(x, y))
CallTimes == \E x, y \in Operands : Apply("*", <<x, y>>, <<>>, OperatorTimes(x, y))
CallDiv == \E x, y \in Operands : Apply("/", <<x, y>>, <<>>, OperatorDiv(x, y))
CallSigmoid == \E x \in Operands : Apply("sigmoid", <<x>>, <<>>, Sigmoid(x))
CallMatProd == \E x, y \in Operands : Apply("matProd", <<x, y>>, <<>>, MatProd(x, y))
CallSquaredNorm == \E x \in Operands : Apply("squaredNorm", <<x>>, <<>>, SquaredNorm(x))
CallConvolution ==
    \E x, y \in Operands : Apply("convolution", <<x, y>>, <<>>, Convolution(x, y))
CallMaxPooling ==
    \E x \in Operands, pool \in Pools :
        Apply("maxPooling", <<x>>, pool, MaxPooling(x, pool))
CallVertCat == \E x \in CatOperands : Apply("vertCat", x, <<>>, VertCat(x))
CallFlattening == \E x \in Operands : Apply("flattening", <<x>>, <<>>, Flattening(x))
CallTrack == \E W \in Tapes, shape \in Shapes : Track(W, shape)

\* X.grad() for a tracked matrix of a tape: the sweep reads the tape and
\* returns a bundle
CallGrad ==
    \E X \in {t \in tensors : t.wList \in Tapes} :
        /\ crashed = "no"
        /\ lastCall' = Call("grad", <<X>>, <<>>, NoTensor, Grad(wLists[X.wList], X))
        /\ wLists' = [wLists EXCEPT ![X.wList] = AfterSweep(@)]
        /\ UNCHANGED <<tensors, crashed, calc>>

NoCalc == [op |-> "none"]

Init ==
    /\ wLists = [W \in Tapes |-> NewWengertList]
    /\ tensors = {Sentinel}
    /\ lastCall = Call("none", <<>>, <<>>, NoTensor, NoBundle)
    /\ crashed = "no"
    /\ calc = NoCalc

Next ==
    \/ CallTrack
    \/ CallPlus
    \/ CallMinus
    \/ CallTimes
    \/ CallDiv
    \/ CallSigmoid
    \/ CallMatProd
    \/ CallSquaredNorm
    \/ CallConvolution
    \/ CallMaxPooling
    \/ CallVertCat
    \/ CallFlattening
    \/ CallGrad

Spec == Init /\ [][Next]_vars

(***************************************************************************)
(* Properties of the tape machine                                          *)
(***************************************************************************)
PrimitiveOps ==
    {"+", "-", "*", "/", "sigmoid", "matProd", "squaredNorm", "convolution",
     "maxPooling", "vertCat", "flattening"}
ElementWiseOps == {"+", "-", "*", "/"}
BinaryOps == {"+", "-", "*", "/", "matProd", "convolution"}

OnTape(t) == t.wList \in Tapes

\* the last call was a primitive that returned a tracked matrix of a tape
Succeeded(c) == c.op \in PrimitiveOps /\ OnTape(c.ret)

OnlyElementWise(W) ==
    \A k \in 1..Len(W.nodes) : W.nodes[k].kind \in {"Input", "ElementWise"}

C3_FlagExactlyNonElementWise ==
    [][/\ \A W \in Tapes :
              /\ wLists[W].elementWiseOnly = OnlyElementWise(wLists[W])
              /\ wLists'[W].elementWiseOnly = OnlyElementWise(wLists'[W])
              /\ ~wLists[W].elementWiseOnly => ~wLists'[W].elementWiseOnly]_vars

\* the operands of a binary primitive are on different tapes or break its
\* size rule
BreaksSizeRule(op, x, y) ==
    \/ x.wList # y.wList
    \/ op \in ElementWiseOps /\ x.value # y.value
    \/ op = "matProd" /\ Cols(x.value) # Rows(y.value)
    \/ op = "convolution" /\ (\/ Rows(x.value) < Rows(y.value)
                              \/ Cols(x.value) < Cols(y.value))

\* C4: a binary primitive called with operands of different tapes or
\* operands that break its size rule returns the sentinel, appends no node
\* to any tape and leaves every tape's elementWiseOnly flag unchanged.
C4_FailingBinaryLeavesTapes ==
    [][(/\ lastCall'.op \in BinaryOps
        /\ BreaksSizeRule(lastCall'.op, lastCall'.args[1], lastCall'.args[2]))
       => /\ lastCall'.ret = Sentinel
          /\ wLists' = wLists
          /\ crashed' = "no"]_vars

\* matProd of operands of two different tapes, and a convolution whose
\* kernel is larger than the matrix, have returned the sentinel
C4_Witness ==
    /\ lastCall.op \in {"matProd", "convolution"}
    /\ OnTape(lastCall.args[1]) /\ OnTape(lastCall.args[2])
    /\ \/ lastCall.args[1].wList # lastCall.args[2].wList
       \/ Rows(lastCall.args[1].value) < Rows(lastCall.args[2].value)
    /\ lastCall.ret = Sentinel

\* the call is in the scope of sentinel propagation: some operand is the
\* sentinel
GotSentinel(c) ==
    /\ c.op \in PrimitiveOps
    /\ \E k \in 1..Len(c.args) : c.args[k] = Sentinel

\* C5: Sentinel propagation.  A primitive that receives the sentinel as an
\* operand returns the sentinel and touches no tape.
C5_SentinelPropagation ==
    [][GotSentinel(lastCall') =>
         /\ lastCall'.ret = Sentinel
         /\ wLists' = wLists
         /\ crashed' = "no"]_vars

NodeShape(n) == <<n.rows, n.cols>>

\* the shape the last primitive must have recorded, from its operands
RECURSIVE SumRows(_, _)
SumRows(x, n) == IF n = 0 THEN 0 ELSE SumRows(x, n - 1) + Rows(x[n].value)

ExpectedShape(c) ==
    LET x == c.args[1].value
    IN  CASE c.op \in ElementWiseOps \cup {"sigmoid"} -> x
          [] c.op = "matProd" -> <<Rows(x), Cols(c.args[2].value)>>
          [] c.op = "squaredNorm" -> <<1, 1>>
          [] c.op = "convolution" ->
                <<Rows(x) - Rows(c.args[2].value) + 1,
                  Cols(x) - Cols(c.args[2].value) + 1>>
          [] c.op = "maxPooling" -> <<Rows(x) \div c.pool[1], Cols(x) \div c.pool[2]>>
          [] c.op = "vertCat" -> <<SumRows(c.args, Len(c.args)), Cols(x)>>
          [] c.op = "flattening" -> <<Rows(x) * Cols(x), 1>>

\* C7: Shape agreement.  For every tracked matrix X of a tape the shape
\* recorded in node N[index(X)] is the shape of value(X), and the node a
\* primitive has just appended records the shape the primitive's rule gives:
\* (rows(x), cols(y)) for matProd, (1,1) for squaredNorm, (rows(mat) -
\* rows(ker) + 1, cols(mat) - cols(ker) + 1) for convolution, (rows/ph,
\* cols/pw) for maxPooling, (sum of rows, common cols) for vertCat and
\* (r*c, 1) for flattening.
C7_ShapeAgreement ==
    /\ \A X \in tensors :
           OnTape(X) =>
               /\ X.index >= 0 /\ X.index < Size(X.wList)
               /\ NodeShape(NodeAt(X.wList, X.index)) = X.value
    /\ Succeeded(lastCall) =>
           NodeShape(NodeAt(lastCall.ret.wList, lastCall.ret.index))
               = ExpectedShape(lastCall)

\* a maxPooling with ph # pw and a flattening of a matrix with more than
\* one row and column are recorded
C7_Witness ==
    /\ Succeeded(lastCall)
    /\ \/ /\ lastCall.op = "flattening"
          /\ Rows(lastCall.args[1].value) > 1
          /\ Cols(lastCall.args[1].value) > 1
       \/ /\ lastCall.op = "maxPooling"
          /\ lastCall.pool[1] # lastCall.pool[2]

MaxElem == 2

Elem == 0..MaxElem

\* a matrix is the sequence of its rows; M(r, c) has the code's indices
Mat(shape, E) == [1..Rows(shape) -> [1..Cols(shape) -> E]]
MRows(m) == Len(m)
MCols(m) == IF Len(m) = 0 THEN 0 ELSE Len(m[1])
At(m, r, c) == m[r + 1][c + 1]
Inside(m, r, c) == r >= 0 /\ r < MRows(m) /\ c >= 0 /\ c < MCols(m)

\* x.value(r, c) in maxPooling: outside the array the read is undefined
\* and yields g
ReadAt(m, r, c, g) == IF Inside(m, r, c) THEN At(m, r, c) ELSE g

\* the two inner loops of maxPooling for the output entry (j, i), from
\* their n-th iteration on: k = n \div pool[0] is the outer counter, l =
\* n % pool[0] the inner one (pool[0], pool[1] are pool[1], pool[2] here)
RECURSIVE PoolScan(_, _, _, _, _, _, _)
PoolScan(x, pool, j, i, n, st, g) ==
    IF n >= pool[2] * pool[1] THEN st
    ELSE LET k == n \div pool[1]
             l == n % pool[1]
             r == j * pool[2] + l
             c == i * pool[1] + k
             v == ReadAt(x, r, c, g)
         IN  PoolScan(x, pool, j, i, n + 1,
                      IF v > st.maxVal
                      THEN [maxVal |-> v, xMax |-> r, yMax |-> c]
                      ELSE st,
                      g)

\* maxVal, xMax, yMax after the inner loops for the output entry (j, i)
PoolWindow(x, pool, j, i, g) ==
    PoolScan(x, pool, j, i, 0,
             [maxVal |-> At(x, j * pool[1], i * pool[2]),
              xMax |-> j * pool[1], yMax |-> i * pool[2]],
             g)

\* res and dx of maxPooling(x, pool) when every read outside x yields g;
\* wroteOutside: dx(xMax, yMax) = 1.0 fell outside dx
MaxPoolingValue(x, pool, g) ==
    LET R == MRows(x) \div pool[1]
        C == MCols(x) \div pool[2]
        win(j, i) == PoolWindow(x, pool, j, i, g)
    IN  [res |-> [j \in 1..R |-> [i \in 1..C |-> win(j - 1, i - 1).maxVal]],
         dx |-> [r \in 1..MRows(x) |-> [c \in 1..MCols(x) |->
                    IF \E j \in 0..(R - 1), i \in 0..(C - 1) :
                           /\ win(j, i).xMax = r - 1
                           /\ win(j, i).yMax = c - 1
                    THEN 1 ELSE 0]],
         wroteOutside |-> \E j \in 0..(R - 1), i \in 0..(C - 1) :
                              ~Inside(x, win(j, i).xMax, win(j, i).yMax)]

\* maxPooling on a matrix x with a pool of two entries that divide its shape
ApplyMaxPooling ==
    \E shape \in Shapes, pool \in Dims \X Dims :
        /\ ~MaxPooling(MkTensor(shape, 1, 0), pool).fail
        /\ \E x \in Mat(shape, Elem) :
             \E g \in (IF MaxPooling(MkTensor(shape, 1, 0), pool).ub
                       THEN Elem \cup {-1} ELSE {0}) :
               calc' = [op |-> "maxPooling", x |-> x, pool |-> pool,
                        abort |-> (g = -1),
                        out |-> MaxPoolingValue(x, pool, g)]
        /\ UNCHANGED <<wLists, tensors, lastCall, crashed>>

NextPool == ApplyMaxPooling

SpecPool == Init /\ [][NextPool]_vars

\* the entries of the window (j, i) of x for a pool (ph, pw)
WindowCells(pool, j, i) ==
    {<<r, c>> \in (0..(j * pool[1] + pool[1] - 1)) \X (0..(i * pool[2] + pool[2] - 1)) :
        r >= j * pool[1] /\ c >= i * pool[2]}

\* p comes before q in the row-major scan
RowMajorBefore(p, q) == p[1] < q[1] \/ (p[1] = q[1] /\ p[2] < q[2])

\* the argmax of a window: the first of its largest entries in row-major order
IsArgMax(x, cells, p) ==
    /\ p \in cells
    /\ \A q \in cells : At(x, q[1], q[2]) <= At(x, p[1], p[2])
    /\ \A q \in cells : At(x, q[1], q[2]) = At(x, p[1], p[2]) =>
                            (q = p \/ RowMajorBefore(p, q))

\* C9: maxPooling(x, (ph, pw)) with ph dividing rows(x) and pw dividing
\* cols(x): every output entry is the maximum of its ph x pw window, and the
\* mask has a 1 exactly at each window's argmax (first in row-major order
\* among equal entries) and 0 everywhere else.
C9_MaxPoolingValue ==
    calc.op = "maxPooling" =>
        LET x == calc.x
            pool == calc.pool
            R == MRows(x) \div pool[1]
            C == MCols(x) \div pool[2]
        IN  /\ ~calc.abort
            /\ ~calc.out.wroteOutside
            /\ \A j \in 0..(R - 1), i \in 0..(C - 1) :
                   \E p \in WindowCells(pool, j, i) :
                       /\ IsArgMax(x, WindowCells(pool, j, i), p)
                       /\ At(calc.out.res, j, i) = At(x, p[1], p[2])
                       /\ \A q \in WindowCells(pool, j, i) :
                              At(calc.out.dx, q[1], q[2]) = IF q = p THEN 1 ELSE 0

\* a rational number n / d, d # 0
Rat(n, d) == [n |-> n, d |-> d]
RatEq(a, b) == a.n * b.d = b.n * a.d

\* operator/ on the entries: the value is x.value + y.value, the factors
\* are 1.0 / y.value and -x.value / (y.value * y.value)
DivValue(x, y) ==
    [value |-> [r \in 1..MRows(x) |-> [c \in 1..MCols(x) |->
                   Rat(x[r][c] + y[r][c], 1)]],
     dx |-> [r \in 1..MRows(x) |-> [c \in 1..MCols(x) |-> Rat(1, y[r][c])]],
     dy |-> [r \in 1..MRows(x) |-> [c \in 1..MCols(x) |->
                Rat(-x[r][c], y[r][c] * y[r][c])]]]

\* x / y on operands of one tape and one shape, y without a zero entry
ApplyDiv ==
    \E shape \in Shapes :
        /\ ~OperatorDiv(MkTensor(shape, 1, 0), MkTensor(shape, 1, 1)).fail
        /\ \E x \in Mat(shape, Elem), y \in Mat(shape, Elem \ {0}) :
               calc' = [op |-> "/", x |-> x, y |-> y, out |-> DivValue(x, y)]
        /\ UNCHANGED <<wLists, tensors, lastCall, crashed>>

NextDiv == ApplyDiv

SpecDiv == Init /\ [][NextDiv]_vars

\* C10: x / y on same-tape, same-shape operands with y entry-wise non-zero
\* has the pointwise quotient x(r,c) / y(r,c) as its value and stores the
\* factors 1/y against x and -x/y^2 against y.
C10_DivisionValue ==
    calc.op = "/" =>
        \A r \in 1..MRows(calc.x), c \in 1..MCols(calc.x) :
            LET xv == calc.x[r][c]
                yv == calc.y[r][c]
            IN  /\ RatEq(calc.out.value[r][c], Rat(xv, yv))
                /\ RatEq(calc.out.dx[r][c], Rat(1, yv))
                /\ RatEq(calc.out.dy[r][c], Rat(-xv, yv * yv))

(***************************************************************************)
(* Entries of the arrays: cross-correlation                                *)
(***************************************************************************)
\* largest number of rows / columns in the shape-only part of the
\* convolution statements
MaxConvDim == 4

EmptyMat == <<>>

MShape(m) == <<MRows(m), MCols(m)>>

\* setZero(r, c)
Zero(r, c) == [a \in 1..r |-> [b \in 1..c |-> 0]]

RECURSIVE SumSeq(_)
SumSeq(s) == IF Len(s) = 0 THEN 0 ELSE Head(s) + SumSeq(Tail(s))

\* m.block(j, i, p, q), read
Block(m, j, i, p, q) ==
    [a \in 1..p |-> [b \in 1..q |-> At(m, j + a - 1, i + b - 1)]]

\* m.block(j, i, rows(b), cols(b)) = b
SetBlock(m, j, i, b) ==
    [r \in 1..MRows(m) |-> [c \in 1..MCols(m) |->
        IF /\ r - 1 >= j /\ r - 1 < j + MRows(b)
           /\ c - 1 >= i /\ c - 1 < i + MCols(b)
        THEN b[r - j][c - i] ELSE m[r][c]]]

\* (a * b).sum() for two arrays of one shape
CwiseProdSum(a, b) ==
    SumSeq([r \in 1..MRows(a) |->
               SumSeq([c \in 1..MCols(a) |-> a[r][c] * b[r][c]])])

\* ts::convArray: res(j, i) = (mat.block(j, i, ker.rows(), ker.cols()) * ker).sum()
ConvArray(mat, ker) ==
    IF MRows(mat) < MRows(ker) \/ MCols(mat) < MCols(ker) THEN EmptyMat
    ELSE LET newRows == MRows(mat) - MRows(ker) + 1
             newCols == MCols(mat) - MCols(ker) + 1
         IN  [j \in 1..newRows |-> [i \in 1..newCols |->
                 CwiseProdSum(Block(mat, j - 1, i - 1, MRows(ker), MCols(ker)),
                              ker)]]

\* ker.rowwise().reverse().colwise().reverse()
ReverseBoth(ker) ==
    [r \in 1..MRows(ker) |-> [c \in 1..MCols(ker) |->
        ker[MRows(ker) + 1 - r][MCols(ker) + 1 - c]]]

\* dMat with the reversed kernel in its top left corner
DMatMutant(res, ker) ==
    SetBlock(Zero(DMatShape(MShape(res), MShape(ker))[1],
                  DMatShape(MShape(res), MShape(ker))[2]),
             0, 0, ReverseBoth(ker))

\* dMat in ts::convolution: setZero, then the block at (res.rows() - 1,
\* res.cols() - 1) is the kernel reversed in both axes
DMat(res, ker) ==
    SetBlock(Zero(DMatShape(MShape(res), MShape(ker))[1],
                  DMatShape(MShape(res), MShape(ker))[2]),
             MRows(res) - 1, MCols(res) - 1, ReverseBoth(ker))

\* value and stored factors of convolution(mat, ker)
ConvolutionValue(mat, ker) ==
    LET res == ConvArray(mat, ker)
    IN  [res |-> res, values |-> <<DMat(res, ker), mat>>]

\* ConvolutionNode::incrementGradient on the entries; first names the
\* operand handed to convArray as its first argument
ConvolutionNodeIncrement(values, j, childDerivative) ==
    IF /\ MRows(childDerivative) > MRows(values[j])
       /\ MRows(childDerivative) > MCols(values[j])
    THEN [first |-> childDerivative, second |-> values[j],
          increment |-> ConvArray(childDerivative, values[j])]
    ELSE [first |-> values[j], second |-> childDerivative,
          increment |-> ConvArray(values[j], childDerivative)]

\* one convolution(mat, ker) on one tape with ker fitting in mat, and the
\* two contributions of its node for a child derivative d of the output's
\* shape
ApplyConvolution ==
    \E ms \in Shapes, ks \in Shapes :
        /\ calc = NoCalc
        /\ ~Convolution(MkTensor(ms, 1, 0), MkTensor(ks, 1, 1)).fail
        /\ \E mat \in Mat(ms, Elem), ker \in Mat(ks, Elem) :
             \E d \in Mat(ConvArrayShape(ms, ks), Elem) :
               LET out == ConvolutionValue(mat, ker)
               IN  calc' = [op |-> "convolution", mat |-> mat, ker |-> ker,
                            d |-> d, out |-> out,
                            inc |-> <<ConvolutionNodeIncrement(out.values, 1, d),
                                      ConvolutionNodeIncrement(out.values, 2, d)>>]
        /\ UNCHANGED <<wLists, tensors, lastCall, crashed>>

ConvShapes == (1..MaxConvDim) \X (1..MaxConvDim)

\* the same call on shapes alone, for larger matrices: the node convolution
\* records and the shapes of its two contributions
ApplyConvolutionShape ==
    \E ms \in ConvShapes, ks \in ConvShapes :
        LET eff == Convolution(MkTensor(ms, 1, 0), MkTensor(ks, 1, 1))
        IN  /\ calc = NoCalc
            /\ ~eff.fail
            /\ calc' = [op |-> "convolutionShape", mat |-> ms, ker |-> ks,
                         res |-> eff.value, node |-> eff.node,
                         inc |-> <<ConvolutionIncrement(eff.node, 1, eff.value),
                                   ConvolutionIncrement(eff.node, 2, eff.value)>>]
            /\ UNCHANGED <<wLists, tensors, lastCall, crashed>>

NextConv == ApplyConvolution \/ ApplyConvolutionShape

SpecConv == Init /\ [][NextConv]_vars

AtLeastAsLarge(a, b) == MRows(a) >= MRows(b) /\ MCols(a) >= MCols(b)

ColMajorData(m) ==
    [n \in 1..(MRows(m) * MCols(m)) |->
        At(m, (n - 1) % MRows(m), (n - 1) \div MRows(m))]

RowMajorData(m) ==
    [n \in 1..(MRows(m) * MCols(m)) |->
        At(m, (n - 1) \div MCols(m), (n - 1) % MCols(m))]

FromColMajor(data, r, c) ==
    [a \in 1..r |-> [b \in 1..c |-> data[(b - 1) * r + a]]]

FromRowMajor(data, r, c) ==
    [a \in 1..r |-> [b \in 1..c |-> data[(a - 1) * c + b]]]

\* a.matrix() * b.matrix()
MatProduct(a, b) ==
    [r \in 1..MRows(a) |-> [c \in 1..MCols(b) |->
        SumSeq([k \in 1..MCols(a) |-> a[r][k] * b[k][c]])]]

\* im2conv whose final resize reads the buffer in column-major order
Im2convMutant(mat, ker) ==
    IF MRows(mat) < MRows(ker) \/ MCols(mat) < MCols(ker) THEN EmptyMat
    ELSE LET newRows == MRows(mat) - MRows(ker) + 1
             newCols == MCols(mat) - MCols(ker) + 1
             vertKer == FromColMajor(ColMajorData(ker), MCols(ker) * MRows(ker), 1)
             height == MRows(vertKer)
             tmp(j, i) == ColMajorData(Block(mat, j, i, MRows(ker), MCols(ker)))
             res == [n \in 1..(newRows * newCols) |-> [k \in 1..height |->
                        tmp((n - 1) \div newCols, (n - 1) % newCols)[k]]]
             prod == MatProduct(res, vertKer)
         IN  FromColMajor(RowMajorData(prod), newRows, newCols)

\* ts::im2conv: vertKer is the kernel's column-major buffer as a column;
\* row j * newCols + i of the row-major res is the column-major buffer of
\* the block at (j, i); the product is a column of newRows * newCols
\* entries in a row-major array, which resize(newRows, newCols) reads again
\* in row-major order
Im2conv(mat, ker) ==
    IF MRows(mat) < MRows(ker) \/ MCols(mat) < MCols(ker) THEN EmptyMat
    ELSE LET newRows == MRows(mat) - MRows(ker) + 1
             newCols == MCols(mat) - MCols(ker) + 1
             vertKer == FromColMajor(ColMajorData(ker), MCols(ker) * MRows(ker), 1)
             height == MRows(vertKer)
             tmp(j, i) == ColMajorData(Block(mat, j, i, MRows(ker), MCols(ker)))
             res == [n \in 1..(newRows * newCols) |-> [k \in 1..height |->
                        tmp((n - 1) \div newCols, (n - 1) % newCols)[k]]]
             prod == MatProduct(res, vertKer)
         IN  FromRowMajor(RowMajorData(prod), newRows, newCols)

Binary == {0, 1}

\* im2conv and convArray on one pair of matrices, the kernel fitting or not
ApplyIm2conv ==
    \E ms \in Shapes, ks \in Shapes :
        /\ calc = NoCalc
        /\ \E mat \in Mat(ms, Elem), ker \in Mat(ks, Elem) :
               calc' = [op |-> "im2conv", mat |-> mat, ker |-> ker,
                        im2conv |-> Im2conv(mat, ker),
                        convArray |-> ConvArray(mat, ker)]
        /\ UNCHANGED <<wLists, tensors, lastCall, crashed>>

\* the same on a square matrix one larger than MaxDim, with entries 0 and 1
ApplyIm2convLarge ==
    \E ks \in Shapes :
        /\ calc = NoCalc
        /\ \E mat \in Mat(<<MaxDim + 1, MaxDim + 1>>, Binary), ker \in Mat(ks, Binary) :
               calc' = [op |-> "im2conv", mat |-> mat, ker |-> ker,
                        im2conv |-> Im2conv(mat, ker),
                        convArray |-> ConvArray(mat, ker)]
        /\ UNCHANGED <<wLists, tensors, lastCall, crashed>>

NextIm2conv == ApplyIm2conv \/ ApplyIm2convLarge

SpecIm2conv == Init /\ [][NextIm2conv]_vars

\* C12: im2conv(mat, ker) and convArray(mat, ker) return the same matrix,
\* of the same shape and with the same entry at every (row, col), and each
\* returns the empty matrix exactly when mat has fewer rows or fewer columns
\* than ker.
C12_Im2convAgreesWithConvArray ==
    calc.op = "im2conv" =>
        LET a == calc.im2conv
            b == calc.convArray
            smaller == \/ MRows(calc.mat) < MRows(calc.ker)
                       \/ MCols(calc.mat) < MCols(calc.ker)
        IN  /\ MShape(a) = MShape(b)
            /\ \A r \in 0..(MRows(b) - 1), c \in 0..(MCols(b) - 1) :
                   At(a, r, c) = At(b, r, c)
            /\ (a = EmptyMat) <=> smaller
            /\ (b = EmptyMat) <=> smaller
            /\ ~smaller => MShape(b) = <<MRows(calc.mat) - MRows(calc.ker) + 1,
                                         MCols(calc.mat) - MCols(calc.ker) + 1>>

\* both have correlated a 3x3 matrix with a 2x2 kernel that is not
\* symmetric, and the four entries of the result are not all equal
C12_Witness ==
    /\ calc.op = "im2conv"
    /\ MShape(calc.mat) = <<MaxDim + 1, MaxDim + 1>>
    /\ MShape(calc.ker) = <<2, 2>>
    /\ calc.ker[1][2] # calc.ker[2][1]
    /\ MShape(calc.im2conv) = <<MaxDim, MaxDim>>
    /\ calc.im2conv[1][2] # calc.im2conv[2][1]

(***************************************************************************)
(* Entries of the arrays: vertical concatenation                           *)
(***************************************************************************)
\* a tracked matrix with the entries of its value: value is the matrix, the
\* handle of the tape machine has its shape
Handle(t) == MkTensor(MShape(t.value), t.wList, t.index)
Handles(x) == [i \in 1..Len(x) |-> Handle(x[i])]

\* res of ts::vertCat: res.block(heights[i], 0, heights[i+1] - heights[i],
\* width) = x[i].value for every operand
VertCatValue(x, heights) ==
    LET height == heights[Len(heights)]
        width == MCols(x[1].value)
        owner(r) == CHOOSE i \in 1..Len(x) : heights[i] <= r /\ r < heights[i + 1]
    IN  [a \in 1..height |-> [b \in 1..width |->
            At(x[owner(a - 1)].value, a - 1 - heights[owner(a - 1)], b - 1)]]

\* the contribution taken from row 0 of the child derivative for every slot
VertCatNodeIncrementMutant(heights, j, childDerivative) ==
    Block(childDerivative, 0, 0,
          heights[j + 1] - heights[j], MCols(childDerivative))

\* VertCatNode::incrementGradient on the entries (slot j is 1-based here)
VertCatNodeIncrement(heights, j, childDerivative) ==
    Block(childDerivative, heights[j], 0,
          heights[j + 1] - heights[j], MCols(childDerivative))

\* a child derivative whose entries tell its rows and columns apart
Tagged(shape, k) ==
    [r \in 1..Rows(shape) |-> [c \in 1..Cols(shape) |->
        k * ((r - 1) * Cols(shape) + c)]]

\* the operands handed to vertCat: matrices of tape 1 with their indices
CatValues ==
    UNION {[1..n -> {[value |-> m, wList |-> 1, index |-> i] :
                        m \in UNION {Mat(sh, Binary) : sh \in Shapes},
                        i \in 0..(MaxCat - 1)}] : n \in 1..MaxCat}

\* one successful vertCat(x) and the contributions of its node for a child
\* derivative d of the output's shape
ApplyVertCat ==
    \E x \in CatValues :
        LET eff == VertCat(Handles(x))
        IN  /\ calc = NoCalc
            /\ ~eff.fail
            /\ \E k \in 1..MaxElem :
                 LET d == Tagged(eff.value, k)
                 IN  calc' = [op |-> "vertCat", x |-> x, node |-> eff.node,
                              res |-> VertCatValue(x, eff.node.heights),
                              d |-> d,
                              inc |-> [j \in 1..Len(x) |->
                                         VertCatNodeIncrement(eff.node.heights, j, d)]]
            /\ UNCHANGED <<wLists, tensors, lastCall, crashed>>

NextVertCat == ApplyVertCat

SpecVertCat == Init /\ [][NextVertCat]_vars

\* C14: for a successful vertCat of m >= 1 matrices the offset table h has
\* m + 1 entries, h[0] = 0, h[j+1] - h[j] = rows(x_j) and h[m] = rows of the
\* output; the dependency list is the operands' indices in order; the
\* contribution for slot j is rows h[j] .. h[j+1] - 1 of the child
\* derivative and has the shape of its parent, and every row of the child
\* derivative belongs to exactly one slot.
C14_VertCatOffsets ==
    calc.op = "vertCat" =>
        LET x == calc.x
            m == Len(x)
            h == calc.node.heights
        IN  /\ Len(h) = m + 1
            /\ h[1] = 0
            /\ \A j \in 1..m : h[j + 1] - h[j] = MRows(x[j].value)
            /\ h[m + 1] = MRows(calc.res)
            /\ h[m + 1] = calc.node.rows
            /\ calc.node.dependencies = [j \in 1..m |-> x[j].index]
            /\ \A j \in 1..m :
                   /\ MShape(calc.inc[j]) = MShape(x[j].value)
                   /\ \A r \in 0..(MRows(calc.inc[j]) - 1),
                         c \in 0..(MCols(calc.inc[j]) - 1) :
                          At(calc.inc[j], r, c) = At(calc.d, h[j] + r, c)
            /\ \A r \in 0..(MRows(calc.d) - 1) :
                   Cardinality({j \in 1..m : h[j] <= r /\ r < h[j + 1]}) = 1
            /\ \A j \in 1..m :
                   \A r \in 0..(MRows(x[j].value) - 1),
                      c \in 0..(MCols(x[j].value) - 1) :
                       At(calc.res, h[j] + r, c) = At(x[j].value, r, c)

\* a vertCat of two operands of different heights, the second one's
\* contribution starting below row 0 of the child derivative
C14_Witness ==
    /\ calc.op = "vertCat"
    /\ Len(calc.x) = 2
    /\ MShape(calc.x[1].value) = <<1, 2>>
    /\ MShape(calc.x[2].value) = <<2, 2>>
    /\ calc.x[1].index # calc.x[2].index
    /\ calc.inc[2] = Block(calc.d, 1, 0, 2, 2)
    /\ calc.inc[2] # Block(calc.d, 0, 0, 2, 2)

(***************************************************************************)
(* Entries of the arrays: flattening                                       *)
(***************************************************************************)
\* flattening whose res is a column-major copy of x
FlatteningValueMutant(x) ==
    FromColMajor(ColMajorData(x), MCols(x) * MRows(x), 1)

\* res of ts::flattening: a row-major copy of x.value, then the column
\* Eigen::Map<Eigen::Array<T, -1, 1>>(res.data(), res.cols() * res.rows())
FlatteningValue(x) ==
    FromColMajor(RowMajorData(x), MCols(x) * MRows(x), 1)

\* FlatteningNode::incrementGradient on the entries:
\* mat(j, i) = childDerivative(j * size[1] + i, 0); size[0], size[1] are
\* size[1], size[2] here
FlatteningNodeIncrement(size, childDerivative) ==
    [j \in 1..size[1] |-> [i \in 1..size[2] |->
        At(childDerivative, (j - 1) * size[2] + (i - 1), 0)]]

\* one flattening(x), the contribution of its node for a child derivative d
\* of the output's shape, and the contribution for d = the flattened value
ApplyFlattening ==
    \E shape \in Shapes :
        LET eff == Flattening(MkTensor(shape, 1, 0))
        IN  /\ calc = NoCalc
            /\ \E x \in Mat(shape, Elem), d \in Mat(eff.value, Elem) :
                   calc' = [op |-> "flattening", x |-> x, node |-> eff.node,
                            res |-> FlatteningValue(x), d |-> d,
                            inc |-> FlatteningNodeIncrement(eff.node.size, d),
                            back |-> FlatteningNodeIncrement(eff.node.size,
                                                             FlatteningValue(x))]
            /\ UNCHANGED <<wLists, tensors, lastCall, crashed>>

NextFlattening == ApplyFlattening

SpecFlattening == Init /\ [][NextFlattening]_vars

\* C15: Flatten round-trip.  For x of shape (r, c), flattening(x) is the
\* (r * c, 1) column whose entry i * c + j is x(i, j); the reverse-sweep
\* reshape of a column d is the (r, c) matrix whose entry (i, j) is
\* d(i * c + j); reshaping the flattened value of x gives x.
C15_FlattenRoundTrip ==
    calc.op = "flattening" =>
        LET x == calc.x
            r == MRows(x)
            c == MCols(x)
        IN  /\ MShape(calc.res) = <<r * c, 1>>
            /\ NodeShape(calc.node) = <<r * c, 1>>
            /\ calc.node.size = <<r, c>>
            /\ \A i \in 0..(r - 1), j \in 0..(c - 1) :
                   /\ At(calc.res, i * c + j, 0) = At(x, i, j)
                   /\ At(calc.inc, i, j) = At(calc.d, i * c + j, 0)
            /\ MShape(calc.inc) = <<r, c>>
            /\ MShape(calc.back) = <<r, c>>
            /\ \A i \in 0..(r - 1), j \in 0..(c - 1) :
                   At(calc.back, i, j) = At(x, i, j)

\* a 2x2 matrix that is not symmetric has been flattened and reshaped
C15_Witness ==
    /\ calc.op = "flattening"
    /\ MShape(calc.x) = <<2, 2>>
    /\ calc.x[1][2] # calc.x[2][1]
    /\ calc.d[2][1] # calc.d[3][1]
    /\ calc.back = calc.x

(***************************************************************************)
(* Entries of the arrays: the reverse step of max pooling                  *)
(***************************************************************************)
\* PoolingNode::incrementGradient on the entries: upsample is zero of the
\* size of values[j]; the loops write childDerivative(j, i) to
\* upsample(j * pool[0] + l, i * pool[1] + k) for l < pool[0], k < pool[1]
\* (pool[0], pool[1] are pool[1], pool[2] here); the result is
\* upsample * values[j].  wroteOutside: a write fell outside upsample.
PoolingNodeIncrement(v, pool, childDerivative) ==
    LET written(r, c) == /\ r < MRows(childDerivative) * pool[1]
                         /\ c < MCols(childDerivative) * pool[2]
        upsample == [r \in 1..MRows(v) |-> [c \in 1..MCols(v) |->
                        IF written(r - 1, c - 1)
                        THEN At(childDerivative, (r - 1) \div pool[1],
                                                 (c - 1) \div pool[2])
                        ELSE 0]]
    IN  [increment |-> [r \in 1..MRows(v) |-> [c \in 1..MCols(v) |->
                           upsample[r][c] * v[r][c]]],
         wroteOutside |-> \/ MRows(childDerivative) * pool[1] > MRows(v)
                          \/ MCols(childDerivative) * pool[2] > MCols(v)]

\* the one-matrix of a shape: the child derivative of a sum of all entries
Ones(shape) == [r \in 1..Rows(shape) |-> [c \in 1..Cols(shape) |-> 1]]

\* the shapes pooled here: up to MaxDim in both axes, and one row or one
\* column of twice that length
PoolShapes == Shapes \cup {<<1, 2 * MaxDim>>, <<2 * MaxDim, 1>>}

\* one maxPooling(x, pool) with a pool that divides the shape of x, and the
\* contribution of its node for a child derivative d of the output's shape
ApplyPoolingGrad ==
    \E shape \in PoolShapes, pool \in Dims \X Dims :
        LET eff == MaxPooling(MkTensor(shape, 1, 0), pool)
        IN  /\ calc = NoCalc
            /\ ~eff.fail
            /\ \E x \in Mat(shape, Elem) :
                 \E g \in (IF eff.ub THEN Elem \cup {-1} ELSE {0}) :
                   \E d \in {Ones(eff.value)} \cup
                            {Tagged(eff.value, k) : k \in 1..MaxElem} :
                     LET out == MaxPoolingValue(x, pool, g)
                     IN  calc' = [op |-> "poolingGrad", x |-> x, pool |-> pool,
                                  abort |-> (g = -1), out |-> out, d |-> d,
                                  inc |-> PoolingNodeIncrement(out.dx, pool, d)]
            /\ UNCHANGED <<wLists, tensors, lastCall, crashed>>

NextPoolingGrad == ApplyPoolingGrad

SpecPoolingGrad == Init /\ [][NextPoolingGrad]_vars

\* the up-sampling part of the reverse step: the contribution has the
\* parent's shape, is d(r div ph, c div pw) where the mask is 1 and 0 where
\* it is 0, and no write leaves the parent's bounds
UpsamplingInside ==
    calc.op = "poolingGrad" =>
        /\ ~calc.inc.wroteOutside
        /\ MShape(calc.inc.increment) = MShape(calc.x)
        /\ \A r \in 0..(MRows(calc.x) - 1), c \in 0..(MCols(calc.x) - 1) :
               At(calc.inc.increment, r, c) =
                   IF At(calc.out.dx, r, c) = 1
                   THEN At(calc.d, r \div calc.pool[1], c \div calc.pool[2])
                   ELSE 0

\* C16: Pooling reverse step.  For a Pooling node with window (ph, pw) and
\* a child derivative d of shape (rows(x)/ph, cols(x)/pw) the contribution
\* has the parent's shape, its entry (r, c) is d(r div ph, c div pw) where
\* the stored mask is 1 and 0 where it is 0, every write of the up-sampling
\* stays inside the parent, also for ph # pw; and the gradient of the sum
\* of the pooled output w.r.t. x is the mask, which has exactly one 1 in
\* each ph x pw block.
C16_PoolingReverseStep ==
    calc.op = "poolingGrad" =>
        LET x == calc.x
            pool == calc.pool
            R == MRows(x) \div pool[1]
            C == MCols(x) \div pool[2]
        IN  /\ UpsamplingInside
            /\ ~calc.abort
            /\ ~calc.out.wroteOutside
            /\ calc.d = Ones(<<R, C>>) =>
                   /\ \A r \in 0..(MRows(x) - 1), c \in 0..(MCols(x) - 1) :
                          At(calc.inc.increment, r, c) = At(calc.out.dx, r, c)
                   /\ \A j \in 0..(R - 1), i \in 0..(C - 1) :
                          Cardinality({q \in WindowCells(pool, j, i) :
                                          At(calc.inc.increment, q[1], q[2]) = 1}) = 1

(***************************************************************************)
(* Failing vertCat and maxPooling on the tape machine                      *)
(***************************************************************************)
\* vertCat was called with tracked matrices of unequal column counts or of
\* different tapes
FailingVertCat(c) ==
    /\ c.op = "vertCat"
    /\ Len(c.args) >= 1
    /\ \A k \in 1..Len(c.args) : OnTape(c.args[k])
    /\ \E k \in 1..Len(c.args) :
           \/ Cols(c.args[k].value) # Cols(c.args[1].value)
           \/ c.args[k].wList # c.args[1].wList

\* maxPooling was called on a tracked matrix with a pool that has not
\* exactly two entries or does not divide the shape
FailingMaxPooling(c) ==
    /\ c.op = "maxPooling"
    /\ OnTape(c.args[1])
    /\ \/ Len(c.pool) # 2
       \/ Rows(c.args[1].value) % c.pool[1] # 0
       \/ Cols(c.args[1].value) % c.pool[2] # 0

\* C17: a failing vertCat (operands of unequal column counts or of
\* different tapes) or maxPooling (a pool without exactly two entries or
\* one that does not divide the input shape) returns the sentinel, appends
\* no node and leaves every tape's elementWiseOnly flag as it was.
C17_FailingCatPoolLeavesTape ==
    [][(FailingVertCat(lastCall') \/ FailingMaxPooling(lastCall'))
       => /\ lastCall'.ret = Sentinel
          /\ wLists' = wLists
          /\ crashed' = "no"]_vars

(***************************************************************************)
(* A tape with the entries of its matrices, and the sweep on the entries   *)
(***************************************************************************)
\* largest number of nodes on the tape before the sum is taken
MaxSumNodes == 3

CwiseSum(a, b) == [r \in 1..MRows(a) |-> [c \in 1..MCols(a) |-> a[r][c] + b[r][c]]]
CwiseDiff(a, b) == [r \in 1..MRows(a) |-> [c \in 1..MCols(a) |-> a[r][c] - b[r][c]]]
CwiseProd(a, b) == [r \in 1..MRows(a) |-> [c \in 1..MCols(a) |-> a[r][c] * b[r][c]]]
Scale(k, a) == [r \in 1..MRows(a) |-> [c \in 1..MCols(a) |-> k * a[r][c]]]
TransposeMat(a) == [c \in 1..MCols(a) |-> [r \in 1..MRows(a) |-> a[r][c]]]

\* value and node of a primitive on the entries: the checks, the
\* dependencies and the recorded shape are those of the primitive on the
\* handles; values holds the factor matrices
ValueEffect(eff, value, values) ==
    [fail |-> FALSE, value |-> value, node |-> [eff.node EXCEPT !.values = values]]

FailValue == [fail |-> TRUE, value |-> EmptyMat, node |-> NoNode]

\* operator+ storing -1 * grad against y
PlusValueMutant(x, y) ==
    LET eff == OperatorPlus(Handle(x), Handle(y))
        grad == Ones(MShape(x.value))
    IN  IF eff.fail THEN FailValue
        ELSE ValueEffect(eff, CwiseSum(x.value, y.value), <<grad, Scale(-1, grad)>>)

\* operator+ : x.value + y.value, factors grad, grad with grad.setOnes
PlusValue(x, y) ==
    LET eff == OperatorPlus(Handle(x), Handle(y))
        grad == Ones(MShape(x.value))
    IN  IF eff.fail THEN FailValue
        ELSE ValueEffect(eff, CwiseSum(x.value, y.value), <<grad, grad>>)

\* operator- : x.value - y.value, factors grad, -1 * grad
MinusValue(x, y) ==
    LET eff == OperatorMinus(Handle(x), Handle(y))
        grad == Ones(MShape(x.value))
    IN  IF eff.fail THEN FailValue
        ELSE ValueEffect(eff, CwiseDiff(x.value, y.value), <<grad, Scale(-1, grad)>>)

\* operator* : x.value * y.value, factors y.value, x.value
TimesValue(x, y) ==
    LET eff == OperatorTimes(Handle(x), Handle(y))
    IN  IF eff.fail THEN FailValue
        ELSE ValueEffect(eff, CwiseProd(x.value, y.value), <<y.value, x.value>>)

\* matProd: x.matrix() * y.matrix(), factors y^T, x^T
MatProdValue(x, y) ==
    LET eff == MatProd(Handle(x), Handle(y))
    IN  IF eff.fail THEN FailValue
        ELSE ValueEffect(eff, MatProduct(x.value, y.value),
                         <<TransposeMat(y.value), TransposeMat(x.value)>>)

\* squaredNorm: the 1x1 sum of squares, factor 2 * x
SquaredNormValue(x) ==
    ValueEffect(SquaredNorm(Handle(x)), <<<<CwiseProdSum(x.value, x.value)>>>>,
                <<Scale(2, x.value)>>)

\* convolution, vertCat and flattening with the values defined above
ConvolutionEffect(mat, ker) ==
    LET eff == Convolution(Handle(mat), Handle(ker))
        out == ConvolutionValue(mat.value, ker.value)
    IN  IF eff.fail THEN FailValue ELSE ValueEffect(eff, out.res, out.values)

VertCatEffect(x) ==
    LET eff == VertCat(Handles(x))
    IN  IF eff.fail THEN FailValue
        ELSE ValueEffect(eff, VertCatValue(x, eff.node.heights), <<>>)

FlatteningEffect(x) ==
    ValueEffect(Flattening(Handle(x)), FlatteningValue(x.value), <<EmptyMat>>)

\* maxPooling for the pools whose scan stays inside x
MaxPoolingEffect(x, pool) ==
    LET eff == MaxPooling(Handle(x), pool)
        out == MaxPoolingValue(x.value, pool, 0)
    IN  IF eff.fail \/ eff.ub THEN FailValue
        ELSE ValueEffect(eff, out.res, <<out.dx>>)

\* the contribution of a node to its j-th dependency on the entries
IncrementValue(node, j, childDerivative) ==
    CASE node.kind = "ElementWise" -> CwiseProd(childDerivative, node.values[j])
      [] node.kind = "MatrixProduct" ->
            IF j = 1 THEN MatProduct(childDerivative, node.values[1])
            ELSE MatProduct(node.values[2], childDerivative)
      [] node.kind = "Norm" -> Scale(childDerivative[1][1], node.values[j])
      [] node.kind = "Convolution" ->
            ConvolutionNodeIncrement(node.values, j, childDerivative).increment
      [] node.kind = "Pooling" ->
            PoolingNodeIncrement(node.values[j], node.pool, childDerivative).increment
      [] node.kind = "VertCat" ->
            VertCatNodeIncrement(node.heights, j, childDerivative)
      [] node.kind = "Flattening" ->
            FlatteningNodeIncrement(node.size, childDerivative)

\* d[p] += c, creating d[p] on first touch
AddValue(d, p, increment) ==
    [k \in 1..Len(d) |->
        IF k # p + 1 THEN d[k]
        ELSE IF d[k] = Unset THEN increment ELSE CwiseSum(d[k], increment)]

RECURSIVE AccumulateValue(_, _, _, _)
AccumulateValue(node, i, j, d) ==
    IF j > Len(node.dependencies) THEN d
    ELSE AccumulateValue(node, i, j + 1,
                         AddValue(d, node.dependencies[j],
                                  IncrementValue(node, j, d[i + 1])))

RECURSIVE SweepValue(_, _, _)
SweepValue(nodes, i, d) ==
    IF i < 0 THEN d
    ELSE SweepValue(nodes, i - 1,
                    IF d[i + 1] = Unset THEN d
                    ELSE AccumulateValue(nodes[i + 1], i, 1, d))

\* Tensor::grad() of a 1x1 root X: the bundle d[0..index(X)]
GradValue(nodes, X) ==
    SweepValue(nodes, X.index,
               [k \in 1..(X.index + 1) |->
                   IF k = X.index + 1 THEN Ones(MShape(X.value)) ELSE Unset])

\* the tape on the entries: nodes, and value[i] the value of the tracked
\* matrix returned with index i - 1
EmptyTape == [op |-> "tape", nodes |-> <<>>, value |-> <<>>]

TapeOf(c) == IF c.op = "tape" THEN c ELSE EmptyTape

TapeTensor(T, i) == [value |-> T.value[i + 1], wList |-> 1, index |-> i]

TapeTensors(T) == {TapeTensor(T, i) : i \in 0..(Len(T.nodes) - 1)}

\* Tensor(newValue, newWList, node): the node is appended and the tracked
\* matrix gets its index
PushValue(T, eff) ==
    [op |-> "tape", nodes |-> Append(T.nodes, eff.node),
     value |-> Append(T.value, eff.value)]

\* a successful call of a primitive on the tape of calc
Record(eff) ==
    /\ calc.op \in {"none", "tape"}
    /\ Len(TapeOf(calc).nodes) < MaxSumNodes
    /\ ~eff.fail
    /\ calc' = PushValue(TapeOf(calc), eff)
    /\ UNCHANGED <<wLists, tensors, lastCall, crashed>>

SumTrack ==
    \E shape \in Shapes : \E m \in Mat(shape, 1..MaxElem) :
        Record([fail |-> FALSE, value |-> m, node |-> InputNode(shape)])

SumElementWise ==
    \E x, y \in TapeTensors(TapeOf(calc)) :
        \/ Record(PlusValue(x, y))
        \/ Record(MinusValue(x, y))
        \/ Record(TimesValue(x, y))

SumMatProd ==
    \E x, y \in TapeTensors(TapeOf(calc)) : Record(MatProdValue(x, y))

SumSquaredNorm ==
    \E x \in TapeTensors(TapeOf(calc)) : Record(SquaredNormValue(x))

SumConvolution ==
    \E x, y \in TapeTensors(TapeOf(calc)) : Record(ConvolutionEffect(x, y))

SumMaxPooling ==
    \E x \in TapeTensors(TapeOf(calc)), pool \in Dims \X Dims :
        Record(MaxPoolingEffect(x, pool))

SumVertCat ==
    \E x, y \in TapeTensors(TapeOf(calc)) :
        \/ Record(VertCatEffect(<<x>>))
        \/ Record(VertCatEffect(<<x, y>>))

SumFlattening ==
    \E x \in TapeTensors(TapeOf(calc)) : Record(FlatteningEffect(x))

\* s = a + b for two 1x1 tracked matrices of the tape, then s.grad(),
\* a.grad() and b.grad()
SumGrad ==
    /\ calc.op = "tape"
    /\ \E a, b \in TapeTensors(calc) :
         LET eff == PlusValue(a, b)
             T == PushValue(calc, eff)
             sum == TapeTensor(T, Len(calc.nodes))
         IN  /\ MShape(a.value) = <<1, 1>>
             /\ MShape(b.value) = <<1, 1>>
             /\ ~eff.fail
             /\ calc' = [op |-> "sum", nodes |-> T.nodes, value |-> T.value,
                         a |-> a, b |-> b, sum |-> sum,
                         gs |-> GradValue(T.nodes, sum),
                         ga |-> GradValue(T.nodes, a),
                         gb |-> GradValue(T.nodes, b)]
    /\ UNCHANGED <<wLists, tensors, lastCall, crashed>>

NextSum ==
    \/ SumTrack
    \/ SumElementWise
    \/ SumMatProd
    \/ SumSquaredNorm
    \/ SumConvolution
    \/ SumMaxPooling
    \/ SumVertCat
    \/ SumFlattening
    \/ SumGrad

SpecSum == Init /\ [][NextSum]_vars

\* entry (r, c) of the derivative a bundle holds for tape index i; a missing
\* or unset derivative counts as zero
DerivativeEntry(g, i, r, c) ==
    IF i + 1 > Len(g) THEN 0
    ELSE IF g[i + 1] = Unset THEN 0
    ELSE g[i + 1][r][c]

\* C13: Linearity of sum.  For 1x1 tracked matrices a and b of one tape,
\* the bundle of grad(a + b) is, at every tape index up to the indices of a
\* and b, the entry-wise sum of the bundles of grad(a) and grad(b), a
\* missing entry counting as zero; the sum's own derivative is 1.
C13_LinearityOfSum ==
    calc.op = "sum" =>
        LET last == IF calc.a.index > calc.b.index THEN calc.a.index
                    ELSE calc.b.index
        IN  /\ calc.gs[calc.sum.index + 1] = <<<<1>>>>
            /\ \A i \in 0..last :
                   /\ calc.gs[i + 1] # Unset =>
                          MShape(calc.gs[i + 1]) = NodeShape(calc.nodes[i + 1])
                   /\ \A r \in 1..calc.nodes[i + 1].rows,
                         c \in 1..calc.nodes[i + 1].cols :
                          DerivativeEntry(calc.gs, i, r, c) =
                              DerivativeEntry(calc.ga, i, r, c)
                                  + DerivativeEntry(calc.gb, i, r, c)

\* a and b are different nodes, b depends on a, and both sweeps reach a
\* leaf that is not 1x1 through a node that is not elementwise
C13_Witness ==
    /\ calc.op = "sum"
    /\ calc.a.index < calc.b.index
    /\ calc.gb[calc.a.index + 1] # Unset
    /\ calc.nodes[1].kind = "Input"
    /\ NodeShape(calc.nodes[1]) # <<1, 1>>
    /\ calc.nodes[calc.a.index + 1].kind \in {"Norm", "MatrixProduct", "Convolution"}
    /\ calc.ga[1] # Unset
    /\ calc.gb[1] # Unset
    /\ \E r \in 1..calc.nodes[1].rows, c \in 1..calc.nodes[1].cols :
           /\ calc.ga[1][r][c] # 0
           /\ calc.gb[1][r][c] # 0

====
